---- MODULE Spec2Model ----
(***************************************************************************)
(* Model of prow/spyglass/lenses/lenses.go: the lens registry              *)
(* (RegisterLens, GetLens, UnregisterLens) and the tail-line extraction    *)
(* (LastNLines, LastNLinesChunked) over the Artifact interface.            *)
(*                                                                         *)
(* Bytes are modelled by their integer values, byte strings by sequences   *)
(* of bytes, []string by sequences of byte strings.                        *)
(***************************************************************************)
EXTENDS Integers, Sequences, FiniteSets, TLC

\* ---------------------------------------------------------------- bounds
\* Longest enumerated artifact content, largest requested line count and
\* largest explicit chunk size.
MaxLen == 4
MaxN == 3
MaxChunk == 8
\* Number of distinct lens objects per configuration, and largest priority.
MaxLensId == 2
MaxPriority == 1

\* ---------------------------------------------------------------- bytes
NUL == 0
LF == 10
CR == 13

\* The bytes artifact contents are enumerated over: "\x00", "\n", "\r", "a".
Alphabet == {NUL, LF, CR, 97}

RECURSIVE SeqsOfLen(_, _)
SeqsOfLen(S, k) ==
    IF k = 0 THEN {<<>>}
    ELSE {Append(s, x) : s \in SeqsOfLen(S, k - 1), x \in S}

SeqsUpTo(S, k) == UNION {SeqsOfLen(S, i) : i \in 0..k}

\* "a\nb\nc\nd\n"
FourLines == <<97, LF, 98, LF, 99, LF, 100, LF>>

\* The artifact contents the calls are made on.
Contents == SeqsUpTo(Alphabet, MaxLen) \cup {FourLines}

\* Artifact implementations, by the way their Size and ReadAt answer:
\*   "ok"      Size succeeds, ReadAt follows the io.ReaderAt contract
\*   "gzip"    Size succeeds, every ReadAt fails with ErrGzipOffsetRead
\*   "flaky"   Size succeeds, a ReadAt may fail with an I/O error
\*   "nosize"  Size fails
ArtifactKinds == {"ok", "gzip", "flaky", "nosize"}

\* ------------------------------------------------- library functions used
Min(a, b) == IF a < b THEN a ELSE b

RECURSIVE Zeros(_)
Zeros(k) == IF k <= 0 THEN <<>> ELSE <<NUL>> \o Zeros(k - 1)

\* Artifact.ReadAt(p, off) of an artifact that follows io.ReaderAt, as
\* bytes.Reader.ReadAt does: n bytes copied to the front of p, io.EOF when
\* fewer than len(p) bytes were available.  buf is p after the call (p is
\* freshly made, so the rest of it is zero).
ReadAt(c, len, off) ==
    LET avail == IF off >= Len(c) THEN 0 ELSE Len(c) - off
        k == Min(len, avail)
    IN  [n |-> k,
         buf |-> SubSeq(c, off + 1, off + k) \o Zeros(len - k),
         err |-> IF k < len THEN "EOF" ELSE "nil"]

\* bytes.Trim(b, "\x00")
RECURSIVE TrimLeft(_)
TrimLeft(b) ==
    IF b # <<>> /\ Head(b) = NUL THEN TrimLeft(Tail(b)) ELSE b

RECURSIVE TrimRight(_)
TrimRight(b) ==
    IF b # <<>> /\ b[Len(b)] = NUL THEN TrimRight(SubSeq(b, 1, Len(b) - 1))
    ELSE b

Trim(b) == TrimRight(TrimLeft(b))

\* bytes.Count(b, []byte("\n"))
CountLF(b) == Cardinality({i \in 1..Len(b) : b[i] = LF})

\* bufio.ScanLines: dropCR
DropCR(b) ==
    IF b # <<>> /\ b[Len(b)] = CR THEN SubSeq(b, 1, Len(b) - 1) ELSE b

\* Index of the first '\n' of b, 0 when there is none (bytes.IndexByte + 1).
IndexLF(b) ==
    IF \E i \in 1..Len(b) : b[i] = LF
    THEN CHOOSE i \in 1..Len(b) : b[i] = LF /\ \A j \in 1..(i - 1) : b[j] # LF
    ELSE 0

\* The tokens of bufio.Scanner with bufio.ScanLines over b: each line without
\* its end-of-line marker (an optional '\r' and the '\n'); a last non-empty
\* line is returned even if it has no newline.
RECURSIVE ScanLines(_)
ScanLines(b) ==
    IF b = <<>> THEN <<>>
    ELSE LET i == IndexLF(b)
         IN  IF i = 0 THEN <<DropCR(b)>>
             ELSE <<DropCR(SubSeq(b, 1, i - 1))>>
                      \o ScanLines(SubSeq(b, i + 1, Len(b)))

\* ------------------------------------------------------------------ state
VARIABLES
    \* the artifact and the call's arguments
    content, kind, n, chunkSize,
    \* position in LastNLines / LastNLinesChunked
    pc,
    \* locals of LastNLinesChunked
    toRead, chunks, contents, linesInContents, artifactSize,
    offset, lastOffset, lastRead,
    \* the calls made on the artifact: number of Size() calls, and one record
    \* per ReadAt call
    sizeCalls, reads,
    \* the returned ([]string, error)
    lines, err,
    \* the registry: lensReg, a map from names to lenses
    lensReg,
    \* the last call made on the registry with what it returned, the
    \* registry as it was before that call, and per name what the calls so
    \* far and their results say: never registered, registered (with which
    \* lens) or unregistered since
    regCall, regBefore, regHist,
    \* threads calling RegisterLens concurrently: each one's position in
    \* the function, its argument and the error it returned, and whether
    \* the runtime has ended the process on a concurrent map access
    tpc, tlens, terr, crashed

tailVars == <<content, kind, n, chunkSize, pc, toRead, chunks, contents,
              linesInContents, artifactSize, offset, lastOffset, lastRead,
              sizeCalls, reads, lines, err>>

regVars == <<lensReg, regCall, regBefore, regHist>>

concVars == <<tpc, tlens, terr, crashed>>

vars == <<tailVars, regVars, concVars>>

\* A call is about to be made on some artifact with some n.
TailInit ==
    /\ content \in Contents
    /\ kind \in ArtifactKinds
    /\ n \in 0..MaxN
    /\ chunkSize = 0
    /\ pc = "call"
    /\ toRead = 0
    /\ chunks = 0
    /\ contents = <<>>
    /\ linesInContents = 0
    /\ artifactSize = 0
    /\ offset = 0
    /\ lastOffset = 0
    /\ lastRead = 0
    /\ sizeCalls = 0
    /\ reads = <<>>
    /\ lines = <<>>
    /\ err = "nil"

\* ---------------------------------------------------------------- lenses
Names == {"buildlog", "junit"}
Titles == {"", "Build Log"}

\* LensConfig values with Priority declared as an int.
LensConfigsSignedPriority ==
    [Name : Names, Title : Titles, Priority : (0 - 1)..MaxPriority,
     HideTitle : BOOLEAN]

\* LensConfig values; Priority is a uint.
LensConfigs ==
    [Name : Names, Title : Titles, Priority : 0..MaxPriority,
     HideTitle : BOOLEAN]

\* Lens values: an object (id) and what its Config() returns.
Lenses == [id : 1..MaxLensId, config : LensConfigs]

\* The nil Lens.
NilLens ==
    [id |-> 0,
     config |-> [Name |-> "", Title |-> "", Priority |-> 0,
                 HideTitle |-> FALSE]]

NoCall ==
    [op |-> "none", name |-> "", arg |-> NilLens, lens |-> NilLens,
     err |-> "nil"]

\* lensReg = map[string]Lens{}
RegInit ==
    /\ lensReg = <<>>
    /\ regCall = NoCall
    /\ regBefore = <<>>
    /\ regHist = [x \in Names |-> [state |-> "never", lens |-> NilLens]]

\* The threads that call RegisterLens at the same time.
Threads == {"t1", "t2"}

\* No concurrent call is in progress.
ConcIdle ==
    /\ tpc = [t \in Threads |-> "idle"]
    /\ tlens = [t \in Threads |-> NilLens]
    /\ terr = [t \in Threads |-> "nil"]
    /\ crashed = FALSE

Init == TailInit /\ RegInit /\ ConcIdle

\* LastNLines(a, n): calls LastNLinesChunked(a, n, 300*n+1).
LastNLines ==
    /\ pc = "call"
    /\ chunkSize' = 300 * n + 1
    /\ pc' = "entry"
    /\ UNCHANGED <<content, kind, n, toRead, chunks, contents,
                   linesInContents, artifactSize, offset, lastOffset,
                   lastRead, sizeCalls, reads, lines, err>>
    /\ UNCHANGED <<regVars, concVars>>

\* A direct call LastNLinesChunked(a, n, cs).
CallChunked(cs) ==
    /\ pc = "call"
    /\ chunkSize' = cs
    /\ pc' = "entry"
    /\ UNCHANGED <<content, kind, n, toRead, chunks, contents,
                   linesInContents, artifactSize, offset, lastOffset,
                   lastRead, sizeCalls, reads, lines, err>>
    /\ UNCHANGED <<regVars, concVars>>

\* a.Size(): the artifact's length, or an error.
Size ==
    IF kind = "nosize" THEN [size |-> 0, err |-> "size"]
    ELSE [size |-> Len(content), err |-> "nil"]

\* A size check that lets every error through.
SizeFailedNever(e) == FALSE

\* if err != nil, after a.Size()
SizeFailed(e) == e # "nil"

\* LastNLinesChunked up to the loop: the locals and the Size() call.
Entry ==
    /\ pc = "entry"
    /\ sizeCalls' = sizeCalls + 1
    /\ toRead' = chunkSize + 1
    /\ chunks' = 1
    /\ contents' = <<>>
    /\ linesInContents' = 0
    /\ lastRead' = 0
    /\ IF SizeFailed(Size.err)
       THEN /\ err' = "error getting artifact size"
            /\ lines' = <<>>
            /\ pc' = "done"
            /\ UNCHANGED <<artifactSize, offset, lastOffset>>
       ELSE /\ artifactSize' = Size.size
            /\ offset' = Size.size - 1 * chunkSize
            /\ lastOffset' = Size.size - 1 * chunkSize
            /\ pc' = "loop"
            /\ UNCHANGED <<lines, err>>
    /\ UNCHANGED <<content, kind, n, chunkSize, reads>>
    /\ UNCHANGED <<regVars, concVars>>

\* A loop condition that forgets the line count.
LoopCondOffsetOnly == offset # 0

\* The loop condition.
LoopCond == linesInContents < n /\ offset # 0

\* if err != nil && err != io.EOF, after a.ReadAt
ReadFailed(e) == e # "nil" /\ e # "EOF"

\* What a.ReadAt(p, off) with len(p) = len can answer, by kind of artifact.
ReadAtOutcomes(len, off) ==
    (IF kind # "gzip" THEN {ReadAt(content, len, off)} ELSE {})
    \cup (IF kind = "gzip"
          THEN {[n |-> 0, buf |-> Zeros(len), err |-> "ErrGzipOffsetRead"]}
          ELSE {})
    \cup (IF kind = "flaky"
          THEN {[n |-> 0, buf |-> Zeros(len), err |-> "io"]}
          ELSE {})

\* An offset update that forgets the bytes read.
NextOffsetStuck == lastOffset

\* offset = lastOffset - lastRead
NextOffset == lastOffset - lastRead

\* A clamped length without the extra byte.
ClampedLenNoSlack(off0) == off0 + chunkSize

\* toRead = offset + chunkSize + 1, when offset < 0
ClampedLen(off0) == off0 + chunkSize + 1

\* One iteration of the loop.
Iterate ==
    /\ pc = "loop"
    /\ LoopCond
    /\ LET off0 == NextOffset
           len == IF off0 < 0 THEN ClampedLen(off0) ELSE toRead
           off == IF off0 < 0 THEN 0 ELSE off0
       IN  \E r \in ReadAtOutcomes(len, off) :
             LET bytesRead == Trim(r.buf)
             IN  /\ toRead' = len
                 /\ offset' = off
                 /\ reads' = Append(reads, [off |-> off, len |-> len,
                                            n |-> r.n, err |-> r.err])
                 /\ IF ReadFailed(r.err)
                    THEN /\ err' = "error reading artifact"
                         /\ lines' = <<>>
                         /\ pc' = "done"
                         /\ UNCHANGED <<lastRead, lastOffset, linesInContents,
                                        contents, chunks>>
                    ELSE /\ lastRead' = r.n
                         /\ lastOffset' = off
                         /\ linesInContents' =
                                linesInContents + CountLF(bytesRead)
                         /\ contents' = bytesRead \o contents
                         /\ chunks' = chunks + 1
                         /\ UNCHANGED <<lines, err, pc>>
    /\ UNCHANGED <<content, kind, n, chunkSize, artifactSize, sizeCalls>>
    /\ UNCHANGED <<regVars, concVars>>

\* lines[l-n:], or all of lines when l < n.
LastOf(ls, k) ==
    IF Len(ls) < k THEN ls ELSE SubSeq(ls, Len(ls) - k + 1, Len(ls))

\* After the loop: scan contents into lines and return the last n.
Finish ==
    /\ pc = "loop"
    /\ ~LoopCond
    /\ lines' = LastOf(ScanLines(contents), n)
    /\ err' = "nil"
    /\ pc' = "done"
    /\ UNCHANGED <<content, kind, n, chunkSize, toRead, chunks, contents,
                   linesInContents, artifactSize, offset, lastOffset,
                   lastRead, sizeCalls, reads>>
    /\ UNCHANGED <<regVars, concVars>>

Next ==
    \/ LastNLines
    \/ \E cs \in 1..MaxChunk : CallChunked(cs)
    \/ Entry
    \/ Iterate
    \/ Finish

\* Calls of LastNLines and LastNLinesChunked on every artifact.
Spec == Init /\ [][Next]_vars

\* ------------------------------------------------------------ the registry
\* An insert that drops every other entry.
MapPutOnly(reg, name, lens) == [x \in {name} |-> lens]

\* lensReg[name] = lens
MapPut(reg, name, lens) ==
    [x \in DOMAIN reg \cup {name} |-> IF x = name THEN lens ELSE reg[x]]

\* A delete that removes nothing.
MapDeleteNothing(reg, name) == reg

\* A delete that empties the map.
MapDeleteAll(reg, name) == <<>>

\* delete(lensReg, name)
MapDelete(reg, name) == [x \in DOMAIN reg \ {name} |-> reg[x]]

\* An existence check that never finds the name.
AlreadyRegisteredNever(reg, name) == FALSE

\* _, ok := lensReg[config.Name]
AlreadyRegistered(reg, name) == name \in DOMAIN reg

\* A title check that accepts every title.
EmptyTitleNever(config) == FALSE

\* config.Title == ""
EmptyTitle(config) == config.Title = ""

\* config.Priority < 0
NegativePriority(config) == config.Priority < 0

\* The error RegisterLens returns for lens on registry reg.
RegisterErr(reg, lens) ==
    IF AlreadyRegistered(reg, lens.config.Name)
    THEN "viewer already registered"
    ELSE IF EmptyTitle(lens.config) THEN "empty title field in view metadata"
    ELSE IF NegativePriority(lens.config) THEN "priority must be >=0"
    ELSE "nil"

\* What GetLens(name) returns on registry reg.
GetLensResult(reg, name) ==
    IF name \in DOMAIN reg
    THEN [lens |-> reg[name], err |-> "nil"]
    ELSE [lens |-> NilLens, err |-> "ErrInvalidLensName"]

RegisterLens(lens) ==
    LET config == lens.config
        e == RegisterErr(lensReg, lens)
    IN  /\ lensReg' = IF e = "nil" THEN MapPut(lensReg, config.Name, lens)
                      ELSE lensReg
        /\ regCall' = [op |-> "RegisterLens", name |-> config.Name,
                       arg |-> lens, lens |-> NilLens, err |-> e]
        /\ regBefore' = lensReg
        /\ regHist' = IF e = "nil"
                      THEN [regHist EXCEPT ![config.Name] =
                               [state |-> "registered", lens |-> lens]]
                      ELSE regHist
        /\ UNCHANGED <<tailVars, concVars>>

GetLens(name) ==
    LET r == GetLensResult(lensReg, name)
    IN  /\ regCall' = [op |-> "GetLens", name |-> name, arg |-> NilLens,
                       lens |-> r.lens, err |-> r.err]
        /\ regBefore' = lensReg
        /\ UNCHANGED <<lensReg, regHist>>
        /\ UNCHANGED <<tailVars, concVars>>

UnregisterLens(viewerName) ==
    /\ lensReg' = MapDelete(lensReg, viewerName)
    /\ regCall' = [op |-> "UnregisterLens", name |-> viewerName,
                   arg |-> NilLens, lens |-> NilLens, err |-> "nil"]
    /\ regBefore' = lensReg
    /\ regHist' = IF regHist[viewerName].state = "registered"
                  THEN [regHist EXCEPT ![viewerName] =
                           [state |-> "unregistered", lens |-> NilLens]]
                  ELSE regHist
    /\ UNCHANGED <<tailVars, concVars>>

\* No call of the tail-line extraction is in progress.
TailIdle ==
    /\ content = <<>> /\ kind = "ok" /\ n = 0 /\ chunkSize = 0
    /\ pc = "idle"
    /\ toRead = 0 /\ chunks = 0 /\ contents = <<>>
    /\ linesInContents = 0 /\ artifactSize = 0
    /\ offset = 0 /\ lastOffset = 0 /\ lastRead = 0
    /\ sizeCalls = 0 /\ reads = <<>> /\ lines = <<>> /\ err = "nil"

RegNext ==
    \/ \E lens \in Lenses : RegisterLens(lens)
    \/ \E name \in Names : GetLens(name)
    \/ \E name \in Names : UnregisterLens(name)

\* Sequential calls of RegisterLens, GetLens and UnregisterLens, from the
\* empty registry.
RegSpecInit == TailIdle /\ RegInit /\ ConcIdle

RegSpec == RegSpecInit /\ [][RegNext]_vars

\* ------------------------------------------------- concurrent callers
\* The threads that are inside the map assignment lensReg[name] = lens.
Writers == {u \in Threads : tpc[u] = "writing"}

\* A RegisterLens that waits until no other call is past its check.
UnlockedWhenAlone(t) ==
    \A u \in Threads \ {t} : tpc[u] \in {"start", "done"}

\* RegisterLens takes no lock: a thread enters whatever the others do.
Unlocked(t) == TRUE

\* RegisterLens up to the insert: the existence check (a map read) and the
\* checks of the config.  A read that overlaps another thread's map write
\* is a data race: it may see the map without or with that write.
RegLookup(t) ==
    /\ ~crashed
    /\ tpc[t] = "start"
    /\ Unlocked(t)
    /\ \E seen \in {lensReg}
                  \cup {MapPut(lensReg, tlens[u].config.Name, tlens[u]) :
                           u \in Writers \ {t}} :
          LET e == RegisterErr(seen, tlens[t])
          IN  IF e = "nil"
              THEN /\ tpc' = [tpc EXCEPT ![t] = "insert"]
                   /\ UNCHANGED terr
              ELSE /\ tpc' = [tpc EXCEPT ![t] = "done"]
                   /\ terr' = [terr EXCEPT ![t] = e]
    /\ UNCHANGED <<tlens, crashed, tailVars, regVars>>

\* The map assignment begins.
InsertBegin(t) ==
    /\ ~crashed
    /\ tpc[t] = "insert"
    /\ tpc' = [tpc EXCEPT ![t] = "writing"]
    /\ UNCHANGED <<tlens, terr, crashed, tailVars, regVars>>

\* The map assignment ends, and RegisterLens returns nil.
InsertEnd(t) ==
    /\ ~crashed
    /\ tpc[t] = "writing"
    /\ lensReg' = MapPut(lensReg, tlens[t].config.Name, tlens[t])
    /\ tpc' = [tpc EXCEPT ![t] = "done"]
    /\ terr' = [terr EXCEPT ![t] = "nil"]
    /\ UNCHANGED <<tlens, crashed, regCall, regBefore, regHist, tailVars>>

\* A map access that overlaps another thread's map write may be caught by
\* the Go runtime, which then ends the process ("concurrent map writes",
\* "concurrent map read and map write").
RaceFatal(t) ==
    /\ ~crashed
    /\ tpc[t] \in {"start", "insert", "writing"}
    /\ Writers \ {t} # {}
    /\ crashed' = TRUE
    /\ UNCHANGED <<tpc, tlens, terr, tailVars, regVars>>

\* Two threads are about to call RegisterLens, each with some lens, on the
\* empty registry.
ConcInit ==
    /\ TailIdle
    /\ RegInit
    /\ tpc = [t \in Threads |-> "start"]
    /\ tlens \in [Threads -> Lenses]
    /\ terr = [t \in Threads |-> "nil"]
    /\ crashed = FALSE

ConcNext ==
    \/ \E t \in Threads : RegLookup(t)
    \/ \E t \in Threads : InsertBegin(t)
    \/ \E t \in Threads : InsertEnd(t)
    \/ \E t \in Threads : RaceFatal(t)

\* Concurrent calls of RegisterLens.
ConcSpec == ConcInit /\ [][ConcNext]_vars

\* ------------------------------------------------ tail-line extraction
\* The lines of b by a full linear scan: b split on "\n", a trailing
\* unterminated line counting as a line.
RECURSIVE SplitLines(_)
SplitLines(b) ==
    IF b = <<>> THEN <<>>
    ELSE LET i == IndexLF(b)
         IN  IF i = 0 THEN <<b>>
             ELSE <<SubSeq(b, 1, i - 1)>> \o SplitLines(SubSeq(b, i + 1, Len(b)))

\* A call on an artifact whose Size and ReadAt work has returned.
Returned == pc = "done" /\ kind = "ok"

\* C1: for every content, n >= 1 and chunk size >= 1, LastNLinesChunked
\* returns the last n entries of the content split on "\n": the chunked
\* backward reads give what a full linear scan gives.
C1_TailEqualsFullScan ==
    (Returned /\ n >= 1 /\ chunkSize \in 1..MaxChunk)
        => (err = "nil" /\ lines = LastOf(SplitLines(content), n))

\* C2: when the content has fewer than n lines, LastNLinesChunked and
\* LastNLines return exactly all its lines, in their order.
C2_FewerLinesReturnsAll ==
    (Returned /\ Len(SplitLines(content)) < n)
        => (err = "nil" /\ lines = SplitLines(content))

\* C3: on "a\nb\nc\nd\n" with n = 2, LastNLinesChunked returns
\* ["c", "d"] for every chunk size from 1 to 7.
C3_FourLinesLastTwo ==
    (Returned /\ content = FourLines /\ n = 2 /\ chunkSize \in 1..7)
        => (err = "nil" /\ lines = << <<99>>, <<100>> >>)

\* C4 as stated: with n = 0, for any artifact, the call returns an empty
\* sequence and no error, after exactly one Size() and no ReadAt.
C4_ZeroLinesAnyArtifact ==
    n = 0 => /\ reads = <<>>
             /\ pc = "done" => (lines = <<>> /\ err = "nil" /\ sizeCalls = 1)

\* C4, amended: with n = 0, for any artifact whose Size() succeeds and any
\* chunk size, LastNLinesChunked and LastNLines return an empty sequence and
\* no error, after exactly one Size() call and without any ReadAt call.
C4_ZeroLinesNoReads ==
    (n = 0 /\ kind # "nosize")
        => /\ reads = <<>>
           /\ sizeCalls <= 1
           /\ pc = "done" => (lines = <<>> /\ err = "nil" /\ sizeCalls = 1)

\* n = 0 on a content of several lines, longer than the chunk.
C4_Witness ==
    /\ pc = "done" /\ n = 0 /\ kind = "ok"
    /\ Len(content) = MaxLen /\ CountLF(content) >= 2 /\ chunkSize = 1
    /\ lines = <<>> /\ sizeCalls = 1

\* C5: on an artifact whose ReadAt always fails with an error other than
\* io.EOF, a call with n >= 1 returns an error and no lines, after exactly
\* one Size() call and a single, failed, ReadAt call.
C5_FailingReadAtOneRead ==
    (pc = "done" /\ kind = "gzip" /\ n >= 1)
        => /\ err # "nil" /\ lines = <<>>
           /\ sizeCalls = 1
           /\ Len(reads) = 1 /\ ReadFailed(reads[1].err)

\* C6: when Size() fails, LastNLinesChunked returns an error and no lines
\* and never calls ReadAt, for every n and chunk size.
C6_SizeFailure ==
    kind = "nosize"
        => /\ reads = <<>>
           /\ pc = "done" => (err = "error getting artifact size" /\ lines = <<>>)

\* A call with n >= 1 on a non-empty artifact whose Size() fails has returned.
C6_Witness ==
    /\ pc = "done" /\ kind = "nosize" /\ n >= 1 /\ content # <<>>
    /\ err # "nil" /\ sizeCalls = 1

\* The bytes of the artifact that the ReadAt call recorded as rd returned.
BytesOf(rd) == SubSeq(content, rd.off + 1, rd.off + rd.n)

\* C7: a ReadAt that returns fewer bytes than asked with io.EOF does not
\* fail the call: the bytes it read are put in front of the buffer, and a
\* call whose ReadAt errors were all io.EOF returns a nil error; any other
\* ReadAt error fails the call.
C7_EOFIsNotFailure ==
    [][(pc = "loop" /\ Len(reads') = Len(reads) + 1)
          => LET rd == reads'[Len(reads')]
             IN  /\ rd.err = "EOF"
                    => /\ rd.n < rd.len
                       /\ pc' = "loop" /\ err' = "nil"
                       /\ contents' = BytesOf(rd) \o contents
                 /\ ReadFailed(rd.err)
                    => (pc' = "done" /\ err' # "nil" /\ lines' = <<>>)]_vars

\* -------------------------------------------------------- registry claims
\* C8: RegisterLens of a lens whose name is already a key returns an error
\* and leaves the registry as it was; GetLens of that name then still
\* returns the lens registered first.
C8_DuplicateRejected ==
    (regCall.op = "RegisterLens" /\ regCall.name \in DOMAIN regBefore)
        => /\ regCall.err # "nil"
           /\ lensReg = regBefore
           /\ regHist[regCall.name].state = "registered"
           /\ GetLensResult(lensReg, regCall.name) =
                  [lens |-> regHist[regCall.name].lens, err |-> "nil"]

\* A second, different lens with a title was offered under a taken name.
C8_Witness ==
    /\ regCall.op = "RegisterLens" /\ regCall.name \in DOMAIN regBefore
    /\ regCall.arg # regBefore[regCall.name]
    /\ regCall.arg.config.Title # ""
    /\ regCall.err # "nil"

\* C9: RegisterLens of a lens with an empty title returns an error and
\* leaves the registry as it was; if the name was not registered, GetLens
\* of it still fails with ErrInvalidLensName.
C9_EmptyTitleRejected ==
    (regCall.op = "RegisterLens" /\ regCall.arg.config.Title = "")
        => /\ regCall.err # "nil"
           /\ lensReg = regBefore
           /\ regCall.name \notin DOMAIN regBefore
                 => GetLensResult(lensReg, regCall.name) =
                        [lens |-> NilLens, err |-> "ErrInvalidLensName"]

\* A lens with an empty title was offered under a free name, another name
\* being registered.
C9_Witness ==
    /\ regCall.op = "RegisterLens" /\ regCall.arg.config.Title = ""
    /\ regCall.name \notin DOMAIN regBefore /\ regBefore # <<>>
    /\ regCall.err # "nil"

\* What the calls made so far say GetLens(name) is to return.
Expected(name) ==
    IF regHist[name].state = "registered"
    THEN [lens |-> regHist[name].lens, err |-> "nil"]
    ELSE [lens |-> NilLens, err |-> "ErrInvalidLensName"]

\* C10: after any sequence of calls, GetLens(name) returns L and nil
\* exactly when the last call that changed name's entry was a successful
\* RegisterLens of L, and ErrInvalidLensName otherwise; GetLens does not
\* change the registry.
C10_GetLensFollowsHistory ==
    /\ \A name \in Names : GetLensResult(lensReg, name) = Expected(name)
    /\ regCall.op = "GetLens"
          => /\ lensReg = regBefore
             /\ [lens |-> regCall.lens, err |-> regCall.err]
                    = Expected(regCall.name)

\* GetLens of a name unregistered since, another name being registered.
C10_Witness ==
    /\ regCall.op = "GetLens"
    /\ regHist[regCall.name].state = "unregistered"
    /\ regCall.err = "ErrInvalidLensName"
    /\ \E other \in Names : regHist[other].state = "registered"

\* The entries of reg other than name's are those of before.
OthersUnchanged(before, reg, name) ==
    /\ DOMAIN reg \ {name} = DOMAIN before \ {name}
    /\ \A x \in DOMAIN before \ {name} : reg[x] = before[x]

\* C11: UnregisterLens of a name that is not in the registry completes
\* without error and leaves every other entry unchanged; GetLens of that
\* name then fails with ErrInvalidLensName.
C11_UnregisterAbsent ==
    (regCall.op = "UnregisterLens" /\ regCall.name \notin DOMAIN regBefore)
        => /\ regCall.err = "nil"
           /\ OthersUnchanged(regBefore, lensReg, regCall.name)
           /\ GetLensResult(lensReg, regCall.name) =
                  [lens |-> NilLens, err |-> "ErrInvalidLensName"]

\* A name never registered was unregistered while another was registered.
C11_Witness ==
    /\ regCall.op = "UnregisterLens" /\ regCall.name \notin DOMAIN regBefore
    /\ regHist[regCall.name].state = "never"
    /\ regBefore # <<>>

\* C17: every entry of the registry is stored under its lens's config name
\* and has a non-empty title, and a successful RegisterLens adds exactly
\* one key, with the lens given, and changes no other entry.
C17_RegistryWellFormed ==
    /\ \A k \in DOMAIN lensReg :
          lensReg[k].config.Name = k /\ lensReg[k].config.Title # ""
    /\ (regCall.op = "RegisterLens" /\ regCall.err = "nil")
          => /\ regCall.name \notin DOMAIN regBefore
             /\ DOMAIN lensReg = DOMAIN regBefore \cup {regCall.name}
             /\ lensReg[regCall.name] = regCall.arg
             /\ OthersUnchanged(regBefore, lensReg, regCall.name)

\* A second name was registered successfully.
C17_Witness ==
    /\ regCall.op = "RegisterLens" /\ regCall.err = "nil"
    /\ regBefore # <<>>
    /\ Cardinality(DOMAIN lensReg) = 2

\* C18: RegisterLens never fails because of the priority: every lens with
\* a non-empty title and a name not yet registered is accepted, whatever
\* its priority.
C18_PriorityNeverRejected ==
    regCall.op = "RegisterLens"
        => /\ regCall.err # "priority must be >=0"
           /\ (regCall.arg.config.Title # ""
                  /\ regCall.name \notin DOMAIN regBefore)
                 => (regCall.err = "nil"
                       /\ GetLensResult(lensReg, regCall.name) =
                              [lens |-> regCall.arg, err |-> "nil"])

\* Lenses of the smallest and of the largest priority were both accepted.
C18_Witness ==
    /\ regCall.op = "RegisterLens" /\ regCall.err = "nil"
    /\ regCall.arg.config.Priority = MaxPriority
    /\ \E k \in DOMAIN lensReg : lensReg[k].config.Priority = 0

\* ------------------------------------------------- the backward scan
\* A ReadAt at offset 0 has been made.
StartRead == \E i \in 1..Len(reads) : reads[i].off = 0

\* The content has no NUL byte.
NoNUL == \A i \in 1..Len(content) : content[i] # NUL

\* C12: after every iteration the buffer is the suffix of the content
\* that starts at the current read offset: the windows neither overlap
\* nor leave a gap (for content without NUL bytes).
C12_BufferIsSuffix ==
    (pc = "loop" /\ kind = "ok" /\ NoNUL /\ reads # <<>>)
        => contents = SubSeq(content, offset + 1, Len(content))

\* C13: with n >= 1, a ReadAt is issued as long as the newline count is
\* below n and offset 0 has not been read, none is issued once the count
\* has reached n or offset 0 has been read, and the scan does not give up
\* with fewer than n newlines before it has read offset 0.
C13_ScanStopsWhenDone ==
    (kind = "ok" /\ n >= 1)
        => /\ pc = "loop" => (LoopCond <=> (linesInContents < n /\ ~StartRead))
           /\ (pc = "done" /\ linesInContents < n) => StartRead

\* C14: for an artifact smaller than the chunk size and n >= 1, exactly
\* one ReadAt is made, at offset 0 with a buffer of size+1 bytes, and the
\* scan stops.
C14_SmallArtifactOneRead ==
    (kind # "nosize" /\ n >= 1 /\ pc \in {"loop", "done"}
       /\ artifactSize < chunkSize)
        => /\ Len(reads) <= 1
           /\ reads # <<>>
                 => (reads[1].off = 0 /\ reads[1].len = artifactSize + 1
                       /\ ~(pc = "loop" /\ LoopCond))
           /\ pc = "done" => Len(reads) = 1

\* A call with n >= 1 and an explicit chunk size larger than a non-empty
\* artifact has returned its lines after one read.
C14_Witness ==
    /\ pc = "done" /\ kind = "ok" /\ n >= 1 /\ err = "nil"
    /\ 0 < artifactSize /\ artifactSize < chunkSize
    /\ chunkSize <= MaxChunk
    /\ Len(reads) = 1 /\ lines # <<>>

\* What C15 says of every state of a call on an artifact whose ReadAt
\* returns the bytes available.
C15_Reads ==
    (kind = "ok" /\ pc \in {"loop", "done"})
        => /\ Len(reads) <= (artifactSize \div chunkSize) + 2
           /\ \A i \in 1..Len(reads) :
                 /\ reads[i].off \in 0..artifactSize
                 /\ reads[i].len >= 1
                 /\ i > 1 => reads[i].off < reads[i - 1].off

\* The calls, each running until it returns.
FairSpec == Init /\ [][Next]_vars /\ WF_vars(Next)

\* C15: on an artifact whose ReadAt returns the bytes available, for
\* every n >= 0 and chunk size >= 1, LastNLinesChunked terminates: the
\* offset decreases strictly from one ReadAt to the next, there are at
\* most size/chunkSize + 2 ReadAt calls, each at an offset in [0, size]
\* with a buffer of at least one byte.
C15_Terminates == []C15_Reads /\ (kind = "ok" => <>(pc = "done"))

\* A call that needed three reads has returned.
C15_Witness ==
    /\ pc = "done" /\ kind = "ok" /\ err = "nil" /\ Len(reads) >= 3

\* --------------------------------------------------- concurrent claims
\* Both threads were given lenses of one name, different, with titles.
SameNameTwoLenses ==
    /\ tlens["t1"] # tlens["t2"]
    /\ tlens["t1"].config.Name = tlens["t2"].config.Name
    /\ \A t \in Threads : tlens[t].config.Title # ""

\* Both calls have returned nil.
BothReturnedNil ==
    ~crashed /\ \A t \in Threads : tpc[t] = "done" /\ terr[t] = "nil"

\* C16: the registry has no mutual exclusion: a thread is never held back
\* by another that is between its existence check and its insert, so two
\* calls with different lenses of one name can both return nil; GetLens
\* then returns one of the two lenses, and the other is lost.
C16_NoMutualExclusion ==
    /\ \A t \in Threads :
          (~crashed /\ tpc[t] = "start") => ENABLED RegLookup(t)
    /\ (SameNameTwoLenses /\ BothReturnedNil)
          => /\ DOMAIN lensReg = {tlens["t1"].config.Name}
             /\ \E t \in Threads :
                   /\ GetLensResult(lensReg, tlens[t].config.Name) =
                          [lens |-> tlens[t], err |-> "nil"]
                   /\ \A u \in Threads \ {t} :
                         \A x \in DOMAIN lensReg : lensReg[x] # tlens[u]

\* Both calls returned nil for two different lenses of one name.
C16_Witness == SameNameTwoLenses /\ BothReturnedNil

====
